---- MODULE Spec2Model ----
(***************************************************************************)
(* Model of montyhall.py: the Doors class (one trial of the Monty Hall     *)
(* game) and the script body that parses the trial count, runs the trials  *)
(* for both strategies and prints one summary line per strategy.           *)
(*                                                                         *)
(* Python values are tagged tuples: <<"None">>, <<"ndarray", d>> (the      *)
(* one-element array rvs(size=1) returns) and <<"int", d>>.  Python lists  *)
(* are sequences; list index i is sequence index i + 1.  Weights are exact *)
(* fractions <<numerator, denominator>> in lowest terms.                   *)
(***************************************************************************)
EXTENDS Integers, Sequences, FiniteSets, TLC

VARIABLES argv, TRIALS, pc, y, y_next, x, x_next, total_score, trial_score,
          test, out, exc, trial_log

vars == <<argv, TRIALS, pc, y, y_next, x, x_next, total_score, trial_score,
          test, out, exc, trial_log>>

(* ---------------- bounds of the model ---------------- *)

\* longest command-line argument text that is enumerated
MaxArgLen == 2

\* largest value of the inner loop variable x for which an iteration is run
MaxIter == 3

(* ---------------- program constants ---------------- *)

DefaultTrials == 1000

NumDoors == 3

NumStrategies == 2

(* ---------------- Python values ---------------- *)

None == <<"None">>

NdArray(d) == <<"ndarray", d>>

PyInt(d) == <<"int", d>>

Item(v) == v[2]

NoExc == <<"None", 0>>

Frac(n, d) == <<n, d>>

Zero == Frac(0, 1)

Positive(w) == w[1] > 0

ListGet(l, i) == l[i + 1]

ListSet(l, i, v) == [l EXCEPT ![i + 1] = v]

Repeat(v, n) == [i \in 1..n |-> v]

DoorRange == 0..(NumDoors - 1)

\* list.remove(x): drops the first occurrence of x (the caller checks presence)
ListRemove(l, e) ==
  IF \E i \in 1..Len(l) : l[i] = e
  THEN LET k == CHOOSE i \in 1..Len(l) : l[i] = e /\ \A j \in 1..(i - 1) : l[j] # e
       IN SubSeq(l, 1, k - 1) \o SubSeq(l, k + 1, Len(l))
  ELSE l

ListHas(l, e) == \E i \in 1..Len(l) : l[i] = e

(* ---------------- rv_discrete(values=(range(3), pk)).rvs(size=1) -------- *)

\* the outcomes the draw can produce: the indices of positive weight
Rvs(pk) == {NdArray(k) : k \in {d \in DoorRange : Positive(ListGet(pk, d))}}

(* ---------------- class Doors ---------------- *)

InitProbs == Repeat(Frac(1, 3), NumDoors)

DoorsInit(prize, first) ==
  [values        |-> ListSet(Repeat(0, NumDoors), Item(prize), 1),
   probs         |-> InitProbs,
   prize_door    |-> prize,
   choice_first  |-> first,
   selection     |-> None,
   choice_second |-> None,
   goat_door     |-> None]

RevealProbs_KeepFirst(self) ==
  LET base == IF Item(self.prize_door) = Item(self.choice_first)
              THEN Repeat(Frac(1, 2), NumDoors)
              ELSE Repeat(Frac(1, 1), NumDoors)
  IN ListSet(base, Item(self.prize_door), Zero)

RevealProbs_KeepPrize(self) ==
  LET base == IF Item(self.prize_door) = Item(self.choice_first)
              THEN Repeat(Frac(1, 2), NumDoors)
              ELSE Repeat(Frac(1, 1), NumDoors)
  IN ListSet(base, Item(self.choice_first), Zero)

\* the weight list reveal_goat builds before its draw
RevealProbs(self) ==
  LET base == IF Item(self.prize_door) = Item(self.choice_first)
              THEN Repeat(Frac(1, 2), NumDoors)
              ELSE Repeat(Frac(1, 1), NumDoors)
      p1   == ListSet(base, Item(self.prize_door), Zero)
  IN ListSet(p1, Item(self.choice_first), Zero)

RevealGoat_ClearsValues(self, goat) ==
  [self EXCEPT !.values = ListSet(self.values, Item(self.prize_door), 0),
               !.probs = RevealProbs(self), !.goat_door = goat]

\* reveal_goat with `goat` the outcome of its draw
RevealGoat(self, goat) ==
  [self EXCEPT !.probs = RevealProbs(self), !.goat_door = goat]

ChooseDoor_RemovesPrize(self, strategy) ==
  IF strategy = 0
  THEN [obj |-> [self EXCEPT !.choice_second = self.choice_first], exc |-> NoExc]
  ELSE LET s0 == <<0, 1, 2>>
           s1 == ListRemove(s0, Item(self.choice_first))
           s2 == ListRemove(s1, Item(self.prize_door))
       IN IF ~ListHas(s0, Item(self.choice_first))
          THEN [obj |-> [self EXCEPT !.selection = s0], exc |-> <<"ValueError", 79>>]
          ELSE IF ~ListHas(s1, Item(self.prize_door))
          THEN [obj |-> [self EXCEPT !.selection = s1], exc |-> <<"ValueError", 80>>]
          ELSE IF s2 = <<>>
          THEN [obj |-> [self EXCEPT !.selection = s2], exc |-> <<"IndexError", 81>>]
          ELSE [obj |-> [self EXCEPT !.selection = s2, !.choice_second = PyInt(s2[1])],
                exc |-> NoExc]

ChooseDoor_SkipsGoat(self, strategy) ==
  IF strategy = 0
  THEN [obj |-> [self EXCEPT !.choice_second = self.choice_first], exc |-> NoExc]
  ELSE LET s0 == <<0, 1, 2>>
           s1 == ListRemove(s0, Item(self.choice_first))
       IN IF ~ListHas(s0, Item(self.choice_first))
          THEN [obj |-> [self EXCEPT !.selection = s0], exc |-> <<"ValueError", 79>>]
          ELSE [obj |-> [self EXCEPT !.selection = s1, !.choice_second = PyInt(s1[1])],
                exc |-> NoExc]

\* choose_door: the object it leaves and the exception it raises, if any
ChooseDoor(self, strategy) ==
  IF strategy = 0
  THEN [obj |-> [self EXCEPT !.choice_second = self.choice_first], exc |-> NoExc]
  ELSE LET s0 == <<0, 1, 2>>
           s1 == ListRemove(s0, Item(self.choice_first))
           s2 == ListRemove(s1, Item(self.goat_door))
       IN IF ~ListHas(s0, Item(self.choice_first))
          THEN [obj |-> [self EXCEPT !.selection = s0], exc |-> <<"ValueError", 79>>]
          ELSE IF ~ListHas(s1, Item(self.goat_door))
          THEN [obj |-> [self EXCEPT !.selection = s1], exc |-> <<"ValueError", 80>>]
          ELSE IF s2 = <<>>
          THEN [obj |-> [self EXCEPT !.selection = s2], exc |-> <<"IndexError", 81>>]
          ELSE [obj |-> [self EXCEPT !.selection = s2, !.choice_second = PyInt(s2[1])],
                exc |-> NoExc]

NpEq_AnyArrays(a, b) ==
  IF a[1] = "None" \/ b[1] = "None" THEN FALSE
  ELSE IF a[1] = "ndarray" /\ b[1] = "ndarray" THEN TRUE
  ELSE Item(a) = Item(b)

\* truth value of a == b where b is a one-element array: the comparison is
\* elementwise (an int broadcasts), and None equals no element
NpEq(a, b) ==
  IF a[1] = "None" \/ b[1] = "None" THEN FALSE
  ELSE Item(a) = Item(b)

TallyScore_AgainstFirst(self) ==
  IF NpEq(self.choice_second, self.choice_first) THEN 1 ELSE 0

TallyScore(self) ==
  IF NpEq(self.choice_second, self.prize_door) THEN 1 ELSE 0

(* ---------------- int(sys.argv[1]) ---------------- *)

DigitVal == [c \in {"0", "1", "2", "3", "4", "5", "6", "7", "8", "9"} |->
               CASE c = "0" -> 0 [] c = "1" -> 1 [] c = "2" -> 2 [] c = "3" -> 3
                 [] c = "4" -> 4 [] c = "5" -> 5 [] c = "6" -> 6 [] c = "7" -> 7
                 [] c = "8" -> 8 [] c = "9" -> 9]

IsSign(c) == c \in {"-", "+"}

Digits(s) == IF s # <<>> /\ IsSign(s[1]) THEN Tail(s) ELSE s

\* int(s) succeeds on an optional sign followed by one or more decimal digits
IntValid(s) ==
  /\ Digits(s) # <<>>
  /\ \A i \in 1..Len(Digits(s)) : Digits(s)[i] \in DOMAIN DigitVal

RECURSIVE DigitsValue(_)
DigitsValue(ds) ==
  IF ds = <<>> THEN 0
  ELSE 10 * DigitsValue(SubSeq(ds, 1, Len(ds) - 1)) + DigitVal[ds[Len(ds)]]

IntOf(s) ==
  IF s # <<>> /\ s[1] = "-" THEN 0 - DigitsValue(Digits(s)) ELSE DigitsValue(Digits(s))

(* ---------------- '{0:.2f}'.format(float(w) / float(t) * 100) ----------- *)

Abs(n) == IF n < 0 THEN 0 - n ELSE n

\* <<sign, hundredths>> of the rendered percentage, t # 0; a zero numerator
\* over a negative t is the float -0.0, rendered "-0.00"
FormatPct(w, t) ==
  <<IF t < 0 THEN "-" ELSE "", (20000 * Abs(w) + Abs(t)) \div (2 * Abs(t))>>

(* ---------------- the script ---------------- *)

ArgChars == {"-", "0", "1", "2", "3", "a"}

ArgTexts == UNION {[1..n -> ArgChars] : n \in 0..MaxArgLen}

\* the object the name `test`, and each of its fields, is before line 104
NoDoors ==
  [values        |-> <<"unbound">>,
   probs         |-> <<"unbound">>,
   prize_door    |-> <<"unbound">>,
   choice_first  |-> <<"unbound">>,
   selection     |-> <<"unbound">>,
   choice_second |-> <<"unbound">>,
   goat_door     |-> <<"unbound">>]

\* sys.argv[1:] is empty or one text; integer names hold 0 until bound
Init ==
  /\ argv \in {<<>>} \cup {<<s>> : s \in ArgTexts}
  /\ TRIALS = 0
  /\ pc = "parse"
  /\ y = 0
  /\ y_next = 0
  /\ x = 0
  /\ x_next = 0
  /\ total_score = 0
  /\ trial_score = 0
  /\ test = NoDoors
  /\ out = <<>>
  /\ exc = NoExc
  /\ trial_log = <<>>

\* lines 96-99
ParseArgs ==
  /\ pc = "parse"
  /\ TRIALS' = IF Len(argv) < 1 THEN DefaultTrials
               ELSE IF ~IntValid(argv[1]) THEN DefaultTrials
               ELSE IntOf(argv[1])
  /\ pc' = "for_y"
  /\ UNCHANGED <<argv, y, y_next, x, x_next, total_score, trial_score, test, out,
                 exc, trial_log>>

\* lines 101-102: next y of range(0, 2), reset of total_score, range(1, TRIALS)
ForY ==
  /\ pc = "for_y"
  /\ IF y_next < NumStrategies
     THEN /\ y' = y_next
          /\ y_next' = y_next + 1
          /\ total_score' = 0
          /\ x_next' = 1
          /\ pc' = "for_x"
     ELSE /\ pc' = "done"
          /\ UNCHANGED <<y, y_next, total_score, x_next>>
  /\ UNCHANGED <<argv, TRIALS, x, trial_score, test, out, exc, trial_log>>

\* line 103: next x of range(1, TRIALS), or the end of the inner loop
ForX ==
  /\ pc = "for_x"
  /\ IF x_next < TRIALS
     THEN /\ x_next <= MaxIter
          /\ x' = x_next
          /\ x_next' = x_next + 1
          /\ pc' = "new"
     ELSE /\ pc' = "report"
          /\ UNCHANGED <<x, x_next>>
  /\ UNCHANGED <<argv, TRIALS, y, y_next, total_score, trial_score, test, out, exc,
                 trial_log>>

\* line 104
NewDoors ==
  /\ pc = "new"
  /\ \E prize \in Rvs(InitProbs), first \in Rvs(InitProbs) :
       test' = DoorsInit(prize, first)
  /\ pc' = "constructed"
  /\ UNCHANGED <<argv, TRIALS, y, y_next, x, x_next, total_score, trial_score, out,
                 exc, trial_log>>

\* line 105; drawing from an all-zero weight list fails
CallRevealGoat ==
  /\ pc = "constructed"
  /\ IF Rvs(RevealProbs(test)) = {}
     THEN /\ test' = [test EXCEPT !.probs = RevealProbs(test)]
          /\ exc' = <<"ValueError", 63>>
          /\ pc' = "error"
     ELSE /\ \E goat \in Rvs(RevealProbs(test)) : test' = RevealGoat(test, goat)
          /\ pc' = "revealed"
          /\ exc' = exc
  /\ UNCHANGED <<argv, TRIALS, y, y_next, x, x_next, total_score, trial_score, out,
                 trial_log>>

\* line 106
CallChooseDoor ==
  /\ pc = "revealed"
  /\ test' = ChooseDoor(test, y).obj
  /\ exc' = ChooseDoor(test, y).exc
  /\ pc' = IF ChooseDoor(test, y).exc = NoExc THEN "chosen" ELSE "error"
  /\ UNCHANGED <<argv, TRIALS, y, y_next, x, x_next, total_score, trial_score, out,
                 trial_log>>

\* line 107
CallTallyScore ==
  /\ pc = "chosen"
  /\ trial_score' = TallyScore(test)
  /\ pc' = "scored"
  /\ UNCHANGED <<argv, TRIALS, y, y_next, x, x_next, total_score, test, out, exc,
                 trial_log>>

\* line 108; trial_log records the strategy and score of each finished trial
AddScore ==
  /\ pc = "scored"
  /\ total_score' = total_score + trial_score
  /\ trial_log' = Append(trial_log, <<y, trial_score>>)
  /\ pc' = "for_x"
  /\ UNCHANGED <<argv, TRIALS, y, y_next, x, x_next, trial_score, test, out, exc>>

Label(strategy) == IF strategy = 1 THEN "switch doors" ELSE "don't switch"

\* lines 109-113
Report ==
  /\ pc = "report"
  /\ IF TRIALS = 0
     THEN /\ exc' = <<"ZeroDivisionError", 109>>
          /\ pc' = "error"
          /\ out' = out
     ELSE /\ out' = Append(out, [label  |-> Label(y),
                                 trials |-> TRIALS,
                                 wins   |-> total_score,
                                 pct    |-> FormatPct(total_score, TRIALS)])
          /\ pc' = "for_y"
          /\ exc' = exc
  /\ UNCHANGED <<argv, TRIALS, y, y_next, x, x_next, total_score, trial_score, test,
                 trial_log>>

Next ==
  \/ ParseArgs
  \/ ForY
  \/ ForX
  \/ NewDoors
  \/ CallRevealGoat
  \/ CallChooseDoor
  \/ CallTallyScore
  \/ AddScore
  \/ Report

Spec == Init /\ [][Next]_vars

(* ---------------- properties ---------------- *)

IsDoorArray(v) == v[1] = "ndarray" /\ Item(v) \in DoorRange

InTrial == pc \in {"constructed", "revealed", "chosen", "scored"}

Revealed == pc \in {"revealed", "chosen", "scored"}

PositiveDoors(pk) == {d \in DoorRange : Positive(ListGet(pk, d))}

\* the scores of the finished trials of one strategy, in order
ScoresOf(strategy) == SelectSeq(trial_log, LAMBDA e : e[1] = strategy)

RECURSIVE SumScores(_)
SumScores(l) == IF l = <<>> THEN 0 ELSE l[1][2] + SumScores(Tail(l))

\* C1: once reveal_goat has drawn, the revealed door is a door, and it is
\* neither the prize door nor the player's first choice.
C1_GoatNeitherPrizeNorFirst ==
  Revealed =>
    /\ IsDoorArray(test.goat_door)
    /\ Item(test.goat_door) # Item(test.prize_door)
    /\ Item(test.goat_door) # Item(test.choice_first)

C1_Witness ==
  /\ pc = "revealed"
  /\ Item(test.prize_door) = Item(test.choice_first)
  /\ Item(test.goat_door) = 2

\* C2 (as claimed): every printed line of a positive trial count T reports
\* the outcome of exactly T trials of its strategy, and its Wins figure is
\* the sum of the scores of those trials.
C2_ExactlyTTrials ==
  \A i \in 1..Len(out) :
    out[i].trials > 0 =>
      /\ Len(ScoresOf(i - 1)) = out[i].trials
      /\ out[i].wins = SumScores(ScoresOf(i - 1))

\* C3 (as claimed): after parsing, the trial count is the argument when it
\* is a valid positive integer and 1000 in every other case (absent,
\* non-numeric, zero, negative).
C3_DefaultUnlessPositive ==
  pc # "parse" =>
    TRIALS = IF Len(argv) >= 1 /\ IntValid(argv[1]) /\ IntOf(argv[1]) > 0
             THEN IntOf(argv[1])
             ELSE DefaultTrials

\* C4 (as claimed): no step of the run raises, and a finished run has printed
\* exactly two lines, "don't switch" first and "switch doors" second.
C4_NoErrorTwoLines ==
  /\ pc # "error"
  /\ exc = NoExc
  /\ pc = "done" =>
       /\ Len(out) = 2
       /\ out[1].label = "don't switch"
       /\ out[2].label = "switch doors"

\* C5: choose_door never raises; after it, under strategy 0 the second
\* choice is the first choice, and under strategy 1 it is the only door that
\* is neither the first choice nor the revealed door, the sole element left
\* in the selection list.
C5_SecondChoiceByStrategy ==
  /\ exc[2] \notin {79, 80, 81}
  /\ pc \in {"chosen", "scored"} =>
       IF y = 0
       THEN test.choice_second = test.choice_first
       ELSE /\ test.choice_second[1] = "int"
            /\ Item(test.choice_second) \in DoorRange
            /\ Item(test.choice_second) # Item(test.choice_first)
            /\ Item(test.choice_second) # Item(test.goat_door)
            /\ \A d \in DoorRange :
                 d \notin {Item(test.choice_first), Item(test.goat_door)}
                   => d = Item(test.choice_second)
            /\ test.selection = <<Item(test.choice_second)>>

C5_Witness ==
  /\ pc = "chosen"
  /\ y = 1
  /\ test.choice_second = PyInt(0)

\* C6: on any draw of prize and first choice and any door the reveal can
\* open, the score of the trial under strategy 0 and its score under
\* strategy 1 are complementary: one is 1 and the other is 0.
C6_ComplementaryScores ==
  pc = "revealed" =>
    /\ ChooseDoor(test, 0).exc = NoExc
    /\ ChooseDoor(test, 1).exc = NoExc
    /\ {TallyScore(ChooseDoor(test, 0).obj), TallyScore(ChooseDoor(test, 1).obj)}
         = {0, 1}

C6_Witness ==
  /\ pc = "revealed"
  /\ TallyScore(ChooseDoor(test, 0).obj) = 0
  /\ TallyScore(ChooseDoor(test, 1).obj) = 1

DrawPairs == Rvs(InitProbs) \X Rvs(InitProbs)

Reveals(pf) == Rvs(RevealProbs(DoorsInit(pf[1], pf[2])))

\* the score of the trial with the given draws, as lines 104-107 compute it
TrialScore(pf, goat, strategy) ==
  TallyScore(ChooseDoor(RevealGoat(DoorsInit(pf[1], pf[2]), goat), strategy).obj)

WinsEveryReveal(strategy) ==
  {pf \in DrawPairs : \A g \in Reveals(pf) : TrialScore(pf, g, strategy) = 1}

WinsSomeReveal(strategy) ==
  {pf \in DrawPairs : \E g \in Reveals(pf) : TrialScore(pf, g, strategy) = 1}

\* C7: the constructor's two draws have 9 equally weighted outcomes; a trial
\* under strategy 0 scores 1 on exactly 3 of them and a trial under
\* strategy 1 on exactly 6, whichever eligible door is revealed; and the
\* score a running trial gets is the one this count assigns to its draws.
C7_ExactWinCounts ==
  /\ Cardinality(DrawPairs) = 9
  /\ \A d \in DoorRange : ListGet(InitProbs, d) = ListGet(InitProbs, 0)
  /\ \A pf \in DrawPairs : Reveals(pf) # {}
  /\ Cardinality(WinsEveryReveal(0)) = 3
  /\ Cardinality(WinsSomeReveal(0)) = 3
  /\ Cardinality(WinsEveryReveal(1)) = 6
  /\ Cardinality(WinsSomeReveal(1)) = 6
  /\ pc = "scored" =>
       trial_score = TrialScore(<<test.prize_door, test.choice_first>>,
                                test.goat_door, y)

C7_Witness ==
  /\ pc = "scored"
  /\ y = 1
  /\ trial_score = 1
  /\ <<test.prize_door, test.choice_first>> \in WinsEveryReveal(1)

\* C8: the score tally_score returns is 0 or 1, and it is 1 exactly when the
\* second choice is the prize door, whether the second choice is the array
\* copied from the first choice or the int taken from the selection list.
C8_ScoreIffPrize ==
  pc = "scored" =>
    /\ trial_score \in {0, 1}
    /\ trial_score = 1 <=> Item(test.choice_second) = Item(test.prize_door)

C8_Witness ==
  /\ pc = "scored"
  /\ test.choice_second[1] = "int"
  /\ trial_score = 1
  /\ \E i \in 1..Len(trial_log) : trial_log[i] = <<0, 1>>
  /\ \E i \in 1..Len(trial_log) : trial_log[i] = <<0, 0>>

\* C9: the weights reveal_goat draws from are never all zero and are zero at
\* the prize door and at the first choice; when the two coincide the two
\* other doors have equal positive weight, and when they differ the one
\* remaining door alone has positive weight.
C9_RevealWeights ==
  /\ exc # <<"ValueError", 63>>
  /\ Revealed =>
       LET pk == test.probs
           p  == Item(test.prize_door)
           f  == Item(test.choice_first)
       IN /\ PositiveDoors(pk) # {}
          /\ ListGet(pk, p) = Zero
          /\ ListGet(pk, f) = Zero
          /\ IF p = f
             THEN /\ PositiveDoors(pk) = DoorRange \ {f}
                  /\ Cardinality(PositiveDoors(pk)) = 2
                  /\ \A d, e \in PositiveDoors(pk) : ListGet(pk, d) = ListGet(pk, e)
             ELSE /\ PositiveDoors(pk) = DoorRange \ {p, f}
                  /\ Cardinality(PositiveDoors(pk)) = 1

C9_Witness ==
  /\ pc = "revealed"
  /\ Item(test.prize_door) # Item(test.choice_first)
  /\ PositiveDoors(test.probs) = {Item(test.goat_door)}

\* C10: reveal_goat, choose_door and tally_score leave prize_door,
\* choice_first and the prize markers unchanged; the markers are 1 at the
\* prize door and 0 elsewhere throughout a trial; and the object a loop
\* iteration builds has every field as the constructor sets it, nothing of
\* the previous trial's object remaining.
C10_TrialFrame ==
  [][ /\ pc \in {"constructed", "revealed", "chosen"} =>
           /\ test'.prize_door = test.prize_door
           /\ test'.choice_first = test.choice_first
           /\ test'.values = test.values
      /\ InTrial' =>
           \A d \in DoorRange :
             ListGet(test'.values, d) = IF d = Item(test'.prize_door) THEN 1 ELSE 0
      /\ pc = "new" =>
           /\ IsDoorArray(test'.prize_door)
           /\ IsDoorArray(test'.choice_first)
           /\ test'.probs = InitProbs
           /\ test'.selection = None
           /\ test'.choice_second = None
           /\ test'.goat_door = None
    ]_vars

C10_Witness ==
  /\ pc = "constructed"
  /\ trial_log # <<>>
  /\ test.goat_door = None
  /\ test.selection = None

====
